---- MODULE Spec2Model ----
(***************************************************************************)
(* A model of code-structure's tree.js: the configuration loader, the     *)
(* path filter, the signature extractor (structural walk and textual      *)
(* fallback) and the recursive tree renderer.                             *)
(*                                                                         *)
(* Strings are sequences of one-character strings, so that prefix,        *)
(* segment, extension and ordering questions are computed, not assumed.   *)
(***************************************************************************)
EXTENDS Integers, Sequences, FiniteSets, TLC

VARIABLES
    \* ---- path filter (shouldExcludePath applied to one path)
    EXCLUDE_PATHS,      \* config.excludePaths as seen by shouldExcludePath
    checkedPath,        \* the relativePath last handed to shouldExcludePath
    pathExcluded,       \* [called, excluded]: the result of that call
    \* ---- configuration loader (one call of loadConfig)
    configFile,         \* <scanDirectory>/.code-structure.json on disk
    loaded,             \* [called, threw, config, warnings]: the call's outcome
    \* ---- signature extractor (one call of extractMethodSignatures)
    sourceFile,         \* the file at filePath: [readable, decls]
    showAllMethods,     \* --all-methods: the includeAllMethods argument
    extracted,          \* [called, threw, value]: the call's outcome
    \* ---- the tool run (main and generateTree)
    rootDir,            \* the directory at customRootDir: a tree of entries
    maxDepth,           \* --depth: [finite, n]
    showMethods,        \* cleared by --no-methods
    runs                \* the outcome of each run so far: [threw, out, warnings]

pathVars == <<EXCLUDE_PATHS, checkedPath, pathExcluded>>
cfgVars == <<configFile, loaded>>
exVars == <<sourceFile, showAllMethods, extracted>>

treeVars == <<rootDir, maxDepth, showMethods, runs>>

vars == <<pathVars, cfgVars, exVars, treeVars>>

(***************************************************************************)
(* Strings                                                                 *)
(***************************************************************************)

\* The characters used by the model, in increasing UTF-16 code unit order
\* ('-' 45, '.' 46, '/' 47, '_' 95, then the lower-case letters).
Alphabet ==
    <<"-", ".", "/", "_", "a", "b", "c", "d", "e", "g", "i", "j", "k", "l", "m",
      "n", "o", "p", "r", "s", "t", "u", "x", "y", "z">>

CharCode(c) == CHOOSE i \in 1..Len(Alphabet) : Alphabet[i] = c

\* String.prototype.startsWith
StartsWith(s, p) == Len(p) <= Len(s) /\ SubSeq(s, 1, Len(p)) = p

\* Array.prototype.includes / String equality on a list of strings
Includes(list, x) == \E i \in 1..Len(list) : list[i] = x

\* String.prototype.split(sep) for a one-character separator: the pieces
\* between separators, empty pieces kept.
RECURSIVE SplitFrom(_, _, _, _)
SplitFrom(s, sep, i, cur) ==
    IF i > Len(s) THEN <<cur>>
    ELSE IF s[i] = sep THEN <<cur>> \o SplitFrom(s, sep, i + 1, <<>>)
    ELSE SplitFrom(s, sep, i + 1, Append(cur, s[i]))

Split(s, sep) == SplitFrom(s, sep, 1, <<>>)

\* path.join(a, b) for a normalised relative path a and a single entry name b
PathJoin(a, b) == IF a = <<>> THEN b ELSE a \o <<"/">> \o b

(***************************************************************************)
(* Names used as inputs                                                    *)
(***************************************************************************)

S_node_modules == <<"n", "o", "d", "e", "_", "m", "o", "d", "u", "l", "e", "s">>
S_package_lock ==
    <<"p", "a", "c", "k", "a", "g", "e", "-", "l", "o", "c", "k", ".", "j", "s", "o", "n">>
S_js == <<".", "j", "s">>
S_mjs == <<".", "m", "j", "s">>
S_cjs == <<".", "c", "j", "s">>
S_json == <<".", "j", "s", "o", "n">>
S_ts == <<".", "t", "s">>
S_lib == <<"l", "i", "b">>
S_library == <<"l", "i", "b", "r", "a", "r", "y">>
S_build == <<"b", "u", "i", "l", "d">>
S_buildtools == <<"b", "u", "i", "l", "d", "t", "o", "o", "l", "s">>
S_src == <<"s", "r", "c">>
S_src_build == <<"s", "r", "c", "/", "b", "u", "i", "l", "d">>
S_x_js == <<"x", ".", "j", "s">>

\* All sequences over S of length at most n
RECURSIVE SeqsUpTo(_, _)
SeqsUpTo(S, n) ==
    IF n = 0 THEN {<<>>}
    ELSE LET shorter == SeqsUpTo(S, n - 1)
         IN  shorter \cup {Append(q, x) : q \in shorter, x \in S}

(***************************************************************************)
(* Configuration loader                                                    *)
(***************************************************************************)

\* Longest list a configuration file gives for one key
MaxListLen == 1

DEFAULT_CONFIG ==
    [excludePaths |-> <<S_node_modules>>,
     excludeFiles |-> <<S_package_lock>>,
     includeExtensions |-> <<S_js, S_mjs, S_cjs, S_json>>]

\* A key of the parsed JSON object: absent (undefined) or an array of strings
Undefined == [present |-> FALSE, val |-> <<>>]
Given(list) == [present |-> TRUE, val |-> list]

\* `x || fallback` for x undefined or an array (an array, even empty, is truthy)
OrElse(x, fallback) == IF x.present THEN x.val ELSE fallback

\* The states of the configuration file: "absent" (existsSync false),
\* "unreadable" (readFileSync throws), "malformed" (JSON.parse throws),
\* "null" (JSON.parse gives null, so reading a key throws), "valid".
NoJson ==
    [excludePaths |-> Undefined, excludeDirs |-> Undefined,
     excludeFiles |-> Undefined, includeExtensions |-> Undefined]

ConfigFileIn(state, json) == [state |-> state, json |-> json]

DefaultsCopy ==
    [excludePaths |-> DEFAULT_CONFIG.excludePaths,
     excludeFiles |-> DEFAULT_CONFIG.excludeFiles,
     includeExtensions |-> DEFAULT_CONFIG.includeExtensions]

MergedExtensions(json) ==
    OrElse(json.includeExtensions, DEFAULT_CONFIG.includeExtensions)

MergedPathsReplacing(json) ==
    IF json.excludePaths.present \/ json.excludeDirs.present
    THEN OrElse(json.excludePaths, <<>>) \o OrElse(json.excludeDirs, <<>>)
    ELSE DEFAULT_CONFIG.excludePaths

MergedPaths(json) ==
    DEFAULT_CONFIG.excludePaths \o OrElse(json.excludePaths, <<>>)
        \o OrElse(json.excludeDirs, <<>>)

MergedFiles(json) == DEFAULT_CONFIG.excludeFiles \o OrElse(json.excludeFiles, <<>>)

\* The handler of the catch clause: two console.warn lines, then fall through
\* to the defaults
CatchConfigErrorSilently == [threw |-> FALSE, config |-> DefaultsCopy, warnings |-> 0]

CatchConfigError == [threw |-> FALSE, config |-> DefaultsCopy, warnings |-> 2]

\* loadConfig(scanDirectory): the Config returned, the number of warning
\* lines written, and whether an exception left the function
loadConfig(cf) ==
    IF cf.state = "absent"
    THEN [threw |-> FALSE, config |-> DefaultsCopy, warnings |-> 0]
    ELSE IF cf.state \in {"unreadable", "malformed", "null"}
    THEN CatchConfigError
    ELSE [threw |-> FALSE,
          config |-> [excludePaths |-> MergedPaths(cf.json),
                      excludeFiles |-> MergedFiles(cf.json),
                      includeExtensions |-> MergedExtensions(cf.json)],
          warnings |-> 0]

(***************************************************************************)
(* Path filter                                                             *)
(***************************************************************************)

\* One rule of the excluded-path list against one path
ExcludeRuleSubstring(relPath, excludePath) ==
    \E i \in 1..(Len(relPath) + 1) :
        \E j \in (i - 1)..Len(relPath) : SubSeq(relPath, i, j) = excludePath

ExcludeRuleMatches(relPath, excludePath) ==
    \/ relPath = excludePath
    \/ StartsWith(relPath, excludePath \o <<"/">>)
    \/ Includes(Split(relPath, "/"), excludePath)

shouldExcludePath(rules, relPath) ==
    \E k \in 1..Len(rules) : ExcludeRuleMatches(relPath, rules[k])

(***************************************************************************)
(* Source files: declarations, their syntax tree and their text            *)
(*                                                                         *)
(* A file's content is a sequence of top-level declarations.  The          *)
(* structural strategy sees it as the syntax tree acorn builds; the        *)
(* textual fallback sees it as the token text Render writes.  Identifiers  *)
(* and keywords are single tokens; white space is not represented.         *)
(***************************************************************************)

\* Formal parameters
Ident(n) == [type |-> "Identifier", name |-> n, dflt |-> <<>>, props |-> <<>>]
Dflt(n, expr) == [type |-> "AssignmentPattern", name |-> n, dflt |-> expr, props |-> <<>>]
Rest(n) == [type |-> "RestElement", name |-> n, dflt |-> <<>>, props |-> <<>>]
ObjPat(ps) == [type |-> "ObjectPattern", name |-> "", dflt |-> <<>>, props |-> ps]
ArrPat(n) == [type |-> "ArrayPattern", name |-> n, dflt |-> <<>>, props |-> <<>>]

\* Declarations.  exp is "none", "named" or "default"; name "" is anonymous.
Fn(exp, async, name, params, inner) ==
    [kind |-> "function", exp |-> exp, async |-> async, name |-> name,
     form |-> "declaration", params |-> params, inner |-> inner, names |-> <<>>]
\* const name = <form>, form "arrow", "funcexpr" or "other"
Var(exp, async, name, form, params, inner) ==
    [kind |-> "variable", exp |-> exp, async |-> async, name |-> name,
     form |-> form, params |-> params, inner |-> inner, names |-> <<>>]
\* export default <expression>
DefExpr(form, async, params) ==
    [kind |-> "defaultExpr", exp |-> "default", async |-> async, name |-> "",
     form |-> form, params |-> params, inner |-> <<>>, names |-> <<>>]
\* class name { [async] method(params) {} }
Class(name, async, method, params) ==
    [kind |-> "class", exp |-> "none", async |-> async, name |-> name,
     form |-> method, params |-> params, inner |-> <<>>, names |-> <<>>]
\* export { n1, n2 as x }: names are [local, alias] pairs, alias "" for none
ExportList(names) ==
    [kind |-> "exportList", exp |-> "named", async |-> FALSE, name |-> "",
     form |-> "list", params |-> <<>>, inner |-> <<>>, names |-> names]
\* text that is no JavaScript (an unfinished statement)
SyntaxError ==
    [kind |-> "syntaxError", exp |-> "none", async |-> FALSE, name |-> "",
     form |-> "text", params |-> <<>>, inner |-> <<>>, names |-> <<>>]

RECURSIVE Concat(_)
Concat(ss) == IF ss = <<>> THEN <<>> ELSE Head(ss) \o Concat(Tail(ss))

\* s1 , s2 , s3
RECURSIVE JoinComma(_)
JoinComma(ss) ==
    IF ss = <<>> THEN <<>>
    ELSE IF Len(ss) = 1 THEN ss[1]
    ELSE ss[1] \o <<",">> \o JoinComma(Tail(ss))

\* ---- the text of a file

RenderParam(p) ==
    CASE p.type = "Identifier" -> <<p.name>>
      [] p.type = "AssignmentPattern" -> <<p.name, "=">> \o p.dflt
      [] p.type = "RestElement" -> <<"...", p.name>>
      [] p.type = "ObjectPattern" ->
            <<"{">> \o JoinComma([i \in 1..Len(p.props) |-> <<p.props[i]>>]) \o <<"}">>
      [] p.type = "ArrayPattern" -> <<"[", p.name, "]">>

RenderParams(params) ==
    <<"(">> \o JoinComma([i \in 1..Len(params) |-> RenderParam(params[i])]) \o <<")">>

ExportWords(d) ==
    CASE d.exp = "none" -> <<>>
      [] d.exp = "named" -> <<"export">>
      [] d.exp = "default" -> <<"export", "default">>

AsyncWord(d) == IF d.async THEN <<"async">> ELSE <<>>

NameWord(d) == IF d.name = "" THEN <<>> ELSE <<d.name>>

RenderExportName(n) == IF n.alias = "" THEN <<n.local>> ELSE <<n.local, "as", n.alias>>

RECURSIVE RenderDecl(_)
RenderDecls(ds) == Concat([i \in 1..Len(ds) |-> RenderDecl(ds[i])])
RenderDecl(d) ==
    CASE d.kind = "function" ->
            ExportWords(d) \o AsyncWord(d) \o <<"function">> \o NameWord(d)
                \o RenderParams(d.params) \o <<"{">> \o RenderDecls(d.inner) \o <<"}">>
      [] d.kind = "variable" /\ d.form = "arrow" ->
            ExportWords(d) \o <<"const", d.name, "=">> \o AsyncWord(d)
                \o RenderParams(d.params) \o <<"=>", "{">> \o RenderDecls(d.inner) \o <<"}">>
      [] d.kind = "variable" /\ d.form = "funcexpr" ->
            ExportWords(d) \o <<"const", d.name, "=">> \o AsyncWord(d) \o <<"function">>
                \o RenderParams(d.params) \o <<"{">> \o RenderDecls(d.inner) \o <<"}">>
      [] d.kind = "variable" /\ d.form = "other" ->
            ExportWords(d) \o <<"const", d.name, "=", "1">>
      [] d.kind = "defaultExpr" /\ d.form = "arrow" ->
            <<"export", "default">> \o AsyncWord(d) \o RenderParams(d.params)
                \o <<"=>", "{", "}">>
      [] d.kind = "defaultExpr" /\ d.form = "funcexpr" ->
            <<"export", "default", "(">> \o AsyncWord(d) \o <<"function">>
                \o RenderParams(d.params) \o <<"{", "}", ")">>
      [] d.kind = "defaultExpr" /\ d.form = "other" ->
            <<"export", "default", "1">>
      [] d.kind = "class" ->
            <<"class", d.name, "{">> \o AsyncWord(d) \o <<d.form>>
                \o RenderParams(d.params) \o <<"{", "}", "}">>
      [] d.kind = "exportList" ->
            <<"export", "{">>
                \o JoinComma([i \in 1..Len(d.names) |-> RenderExportName(d.names[i])])
                \o <<"}">>
      [] d.kind = "syntaxError" -> <<"@">>

\* ---- acorn's parse(fileContent, {sourceType: 'module'})

\* the names a declaration binds in the module scope
BoundName(d) ==
    IF d.kind \in {"function", "variable", "class"} /\ d.name # "" THEN {d.name} ELSE {}

\* the names a declaration exports
ExportedNames(d) ==
    CASE d.kind = "exportList" ->
            {IF d.names[i].alias = "" THEN d.names[i].local ELSE d.names[i].alias :
                i \in 1..Len(d.names)}
      [] d.exp = "default" -> {"default"}
      [] d.exp = "named" -> {d.name}
      [] OTHER -> {}

IsIdentifierName(n) == n \notin {"", "a(", "(", ")", "{", "}", ",", "=", "=>", "@"}

\* parse throws on text that is no JavaScript, on a name bound twice in one
\* scope, on a name exported twice and on an export of an unbound name
Parses(ds) ==
    /\ \A i \in 1..Len(ds) : ds[i].kind # "syntaxError"
    /\ \A i \in 1..Len(ds) :
          ds[i].kind = "exportList" =>
              \A k \in 1..Len(ds[i].names) :
                  /\ IsIdentifierName(ds[i].names[k].local)
                  /\ \E j \in 1..Len(ds) : ds[i].names[k].local \in BoundName(ds[j])
    /\ \A i, j \in 1..Len(ds) :
          i < j => /\ BoundName(ds[i]) \cap BoundName(ds[j]) = {}
                   /\ ExportedNames(ds[i]) \cap ExportedNames(ds[j]) = {}
    /\ \A i \in 1..Len(ds) : \A j, k \in 1..Len(ds[i].inner) :
          (j < k /\ "variable" \in {ds[i].inner[j].kind, ds[i].inner[k].kind})
              => BoundName(ds[i].inner[j]) \cap BoundName(ds[i].inner[k]) = {}

(***************************************************************************)
(* Signature extraction                                                    *)
(*                                                                         *)
(* A signature string `${export}${async}${name}(${params})` is kept as the *)
(* record of its parts; params is the token text between the parentheses.  *)
(* at is not part of the string: it is the token index of node.start or    *)
(* match.index, kept so that the order of signatures can be compared with  *)
(* the order of the text.                                                  *)
(***************************************************************************)

Sig(exp, async, name, params, at) ==
    [exp |-> exp, async |-> async, name |-> name, params |-> params, at |-> at]

\* ---- structural strategy

ExtractParam(p) ==
    CASE p.type = "Identifier" -> <<p.name>>
      [] p.type = "AssignmentPattern" -> <<p.name, "=", "...">>
      [] p.type = "RestElement" -> <<"...", p.name>>
      [] p.type = "ObjectPattern" ->
            IF Len(p.props) > 0
            THEN <<"{">> \o JoinComma([i \in 1..Len(p.props) |-> <<p.props[i]>>]) \o <<"}">>
            ELSE <<"{", "...", "}">>
      [] p.type = "ArrayPattern" -> <<"[", "...", "]">>
      [] OTHER -> <<"?">>

extractParams(params) == JoinComma([i \in 1..Len(params) |-> ExtractParam(params[i])])

IsFunctionInit(d) == d.form \in {"arrow", "funcexpr"}

\* visitor FunctionDeclaration
VisitFunctionDeclarationAlways(d, includeAllMethods, at) ==
    IF d.name # ""
    THEN <<Sig("none", d.async, d.name, extractParams(d.params), at)>>
    ELSE <<>>

VisitFunctionDeclaration(d, includeAllMethods, at) ==
    IF includeAllMethods /\ d.name # ""
    THEN <<Sig("none", d.async, d.name, extractParams(d.params), at)>>
    ELSE <<>>

\* visitor MethodDefinition
VisitMethodDefinition(d, includeAllMethods, at) ==
    IF includeAllMethods
    THEN <<Sig("none", d.async, d.form, extractParams(d.params), at)>>
    ELSE <<>>

\* visitor VariableDeclarator
VisitVariableDeclarator(d, includeAllMethods, at) ==
    IF includeAllMethods /\ d.name # "" /\ IsFunctionInit(d)
    THEN <<Sig("none", d.async, d.name, extractParams(d.params), at)>>
    ELSE <<>>

\* visitor ExportNamedDeclaration
VisitExportNamedDeclaration(d, at) ==
    IF d.kind = "function"
    THEN <<Sig("named", d.async, d.name, extractParams(d.params), at)>>
    ELSE IF d.kind = "variable" /\ IsFunctionInit(d)
    THEN <<Sig("named", d.async, d.name, extractParams(d.params), at)>>
    ELSE <<>>

\* visitor ExportDefaultDeclaration
VisitExportDefaultUntagged(d, at) ==
    IF d.kind = "function"
    THEN <<Sig("named", d.async, d.name, extractParams(d.params), at)>>
    ELSE IF d.kind = "defaultExpr" /\ IsFunctionInit(d)
    THEN <<Sig("named", d.async, "function", extractParams(d.params), at)>>
    ELSE <<>>

VisitExportDefaultDeclaration(d, at) ==
    IF d.kind = "function"
    THEN <<Sig("default", d.async, IF d.name # "" THEN d.name ELSE "default",
               extractParams(d.params), at)>>
    ELSE IF d.kind = "defaultExpr" /\ IsFunctionInit(d)
    THEN <<Sig("default", d.async, "function", extractParams(d.params), at)>>
    ELSE <<>>

\* the visitor of the node that is the declaration itself
VisitOwn(d, includeAllMethods, at) ==
    CASE d.kind = "function" -> VisitFunctionDeclaration(d, includeAllMethods, at)
      [] d.kind = "variable" -> VisitVariableDeclarator(d, includeAllMethods, at)
      [] d.kind = "class" -> VisitMethodDefinition(d, includeAllMethods, at)
      [] OTHER -> <<>>

\* the visitor of the export node wrapping the declaration, if any
VisitExport(d, at) ==
    CASE d.kind = "exportList" -> <<>>
      [] d.exp = "named" -> VisitExportNamedDeclaration(d, at)
      [] d.exp = "default" -> VisitExportDefaultDeclaration(d, at)
      [] OTHER -> <<>>

\* token index at which ds[i] starts, ds starting at base
StartOf(ds, i, base) == base + Len(RenderDecls(SubSeq(ds, 1, i - 1)))

\* token index at which the body of d starts, d starting at start
InnerBase(d, start) == start + Len(RenderDecl(d)) - Len(RenderDecls(d.inner)) - 1

\* acorn-walk's simple(): the children of a node are walked before the
\* node's own visitor is called, and a wrapping export node comes after the
\* declaration it wraps
RECURSIVE WalkNode(_, _, _)
WalkNodes(ds, includeAllMethods, base) ==
    Concat([i \in 1..Len(ds) |-> WalkNode(ds[i], includeAllMethods, StartOf(ds, i, base))])

WalkNode(d, includeAllMethods, start) ==
    WalkNodes(d.inner, includeAllMethods, InnerBase(d, start))
        \o VisitOwn(d, includeAllMethods, start) \o VisitExport(d, start)

\* ---- textual fallback: the regular expressions, on token text

Tok(t, i) == IF i >= 1 /\ i <= Len(t) THEN t[i] ELSE ""

Punctuation == {"", "(", ")", "{", "}", "[", "]", ",", "=", "=>", "...", "@", "a("}

\* \w+ matches the whole token
IsWord(tok) == tok \notin Punctuation

\* String.prototype.includes(word) on a token: which tokens of the model
\* contain the word
ContainsText(tok, word) ==
    \/ tok = word
    \/ word = "export" /\ tok = "exportData"
    \/ word = "default" /\ tok = "defaultHandler"
    \/ word = "async" /\ tok = "asyncTask"

\* fullMatch.includes(word), fullMatch being tokens from..to of t
MatchIncludes(t, from, to, word) == \E k \in from..to : ContainsText(t[k], word)

\* index of the first ")" at or after i, 0 when there is none: the end of ([^)]*)\)
FirstIndexOf(t, i, tok) ==
    IF \E k \in i..Len(t) : t[k] = tok
    THEN CHOOSE k \in i..Len(t) : t[k] = tok /\ \A m \in i..(k - 1) : t[m] # tok
    ELSE 0

\* (?:export\s+(?:default\s+)?)? at i: the index after it.  With required,
\* export\s+(?:default\s+)? : 0 when "export" is missing.
AfterExport(t, i, required) ==
    IF Tok(t, i) = "export"
    THEN IF Tok(t, i + 1) = "default" THEN i + 2 ELSE i + 1
    ELSE IF required THEN 0 ELSE i

AfterAsync(t, i) == IF Tok(t, i) = "async" THEN i + 1 ELSE i

NoMatch == [ok |-> FALSE, from |-> 0, to |-> 0, name |-> "", params |-> <<>>, async |-> FALSE]

\* the pattern of the name group in functionRegex and arrowRegex
AnyWord == "(\\w+)"

\* the name group: (\w+), or the listed name built into funcDefRegex
NameGroup(tok, pattern) == IF pattern = AnyWord THEN IsWord(tok) ELSE tok = pattern

\* (?:async\s+)?function\s+(\w+)\s*\(([^)]*)\) from index j, the match
\* starting at index i <= j
FunctionTail(t, i, j, name) ==
    LET f == AfterAsync(t, j)
        close == FirstIndexOf(t, f + 3, ")")
    IN  IF /\ Tok(t, f) = "function"
           /\ NameGroup(Tok(t, f + 1), name)
           /\ Tok(t, f + 2) = "("
           /\ close # 0
        THEN [ok |-> TRUE, from |-> i, to |-> close, name |-> t[f + 1],
              params |-> SubSeq(t, f + 3, close - 1), async |-> f # j]
        ELSE NoMatch

\* (?:const|let|var)\s+(\w+)\s*=\s*(async\s+)?\(([^)]*)\)\s*=> from index j
ArrowTail(t, i, j, name) ==
    LET a == AfterAsync(t, j + 3)
        close == FirstIndexOf(t, a + 1, ")")
    IN  IF /\ Tok(t, j) \in {"const", "let", "var"}
           /\ NameGroup(Tok(t, j + 1), name)
           /\ Tok(t, j + 2) = "="
           /\ Tok(t, a) = "("
           /\ close # 0
           /\ Tok(t, close + 1) = "=>"
        THEN [ok |-> TRUE, from |-> i, to |-> close + 1, name |-> t[j + 1],
              params |-> SubSeq(t, a + 1, close - 1), async |-> a # j + 3]
        ELSE NoMatch

\* functionRegex (required FALSE) and exportedFunctionRegex (required TRUE) at i
MatchFunctionAt(t, i, required) ==
    LET j == AfterExport(t, i, required)
    IN  IF j = 0 THEN NoMatch ELSE FunctionTail(t, i, j, AnyWord)

\* arrowRegex (required FALSE) and exportedArrowRegex (required TRUE) at i
MatchArrowAt(t, i, required) ==
    LET j == AfterExport(t, i, required)
    IN  IF j = 0 THEN NoMatch ELSE ArrowTail(t, i, j, AnyWord)

\* funcDefRegex for one exported name at i: either alternative
MatchDefinitionAt(t, i, name) ==
    IF FunctionTail(t, i, i, name).ok THEN FunctionTail(t, i, i, name)
    ELSE ArrowTail(t, i, i, name)

\* exportListRegex at i: export\s*\{\s*([^}]+)\s*\}
MatchExportListAt(t, i) ==
    LET close == FirstIndexOf(t, i + 2, "}")
    IN  IF Tok(t, i) = "export" /\ Tok(t, i + 1) = "{" /\ close > i + 2
        THEN [ok |-> TRUE, from |-> i, to |-> close, name |-> "",
              params |-> SubSeq(t, i + 2, close - 1), async |-> FALSE]
        ELSE NoMatch

MatchAt(regex, t, i) ==
    CASE regex = "functionRegex" -> MatchFunctionAt(t, i, FALSE)
      [] regex = "arrowRegex" -> MatchArrowAt(t, i, FALSE)
      [] regex = "exportedFunctionRegex" -> MatchFunctionAt(t, i, TRUE)
      [] regex = "exportedArrowRegex" -> MatchArrowAt(t, i, TRUE)
      [] regex = "exportListRegex" -> MatchExportListAt(t, i)

\* the index at which the next exec starts: regex.lastIndex after a match
LastIndex(m, i) == IF m.ok THEN m.to + 1 ELSE i + 1

\* the match an iteration of the loop handles, if exec found one at i
Matched(m) == IF m.ok THEN <<m>> ELSE <<>>

\* while ((match = regex.exec(fileContent)) !== null): the matches of a
\* global regex, each search starting where the last match ended
RECURSIVE ExecAll(_, _, _)
ExecAll(regex, t, i) ==
    IF i > Len(t) THEN <<>>
    ELSE Matched(MatchAt(regex, t, i))
             \o ExecAll(regex, t, LastIndex(MatchAt(regex, t, i), i))

\* the first match of funcDefRegex in the text, at or after i
RECURSIVE FirstDefinition(_, _, _)
FirstDefinition(t, i, name) ==
    IF i > Len(t) THEN NoMatch
    ELSE IF MatchDefinitionAt(t, i, name).ok THEN MatchDefinitionAt(t, i, name)
    ELSE FirstDefinition(t, i + 1, name)

\* exportList.split(','), each piece cut at " as " and trimmed
ExportListNames(items) ==
    LET pieces == Split(items, ",")
    IN  [k \in 1..Len(pieces) |-> Tok(pieces[k], 1)]

\* new RegExp(...) throws a SyntaxError on a name that is no valid pattern
RegExpThrows(name) == name \in {"a(", "(", ")", "["}

\* the signature pushed for a match m in the includeAllMethods branch
AllMethodsSignature(t, m) ==
    Sig(IF MatchIncludes(t, m.from, m.to, "export") THEN "named" ELSE "none",
        FALSE, m.name, m.params, m.from)

AllMethodsSignatures(t, ms) == [k \in 1..Len(ms) |-> AllMethodsSignature(t, ms[k])]

\* includeAllMethods branch: the function pass, then the arrow pass
RawAllMethods(t) ==
    AllMethodsSignatures(t, ExecAll("functionRegex", t, 1))
        \o AllMethodsSignatures(t, ExecAll("arrowRegex", t, 1))

\* isDefault ? 'export default ' : 'export '
ExportPrefix(t, m) ==
    IF MatchIncludes(t, m.from, m.to, "default") THEN "default" ELSE "named"

\* the signatures pushed for the matches of exportedFunctionRegex
ExportedFunctionSignatures(t, ms) ==
    [k \in 1..Len(ms) |->
        Sig(ExportPrefix(t, ms[k]), MatchIncludes(t, ms[k].from, ms[k].to, "async"),
            ms[k].name, ms[k].params, ms[k].from)]

\* the signatures pushed for the matches of exportedArrowRegex
ExportedArrowSignatures(t, ms) ==
    [k \in 1..Len(ms) |->
        Sig(ExportPrefix(t, ms[k]), ms[k].async, ms[k].name, ms[k].params, ms[k].from)]

\* exported-only branch, the two passes over declarations
RawExported(t) ==
    ExportedFunctionSignatures(t, ExecAll("exportedFunctionRegex", t, 1))
        \o ExportedArrowSignatures(t, ExecAll("exportedArrowRegex", t, 1))

\* the export lists of the text
ExportListMatches(ls) == Concat([k \in 1..Len(ls) |-> ExportListNames(ls[k].params)])

\* exported-only branch, the export { ... } pass: every name of every list,
\* in order
RawExportListNames(t) == ExportListMatches(ExecAll("exportListRegex", t, 1))

\* the signature pushed for a listed name whose definition m was found
ListedSignature(t, name, m) ==
    IF m.ok
    THEN <<Sig("named", MatchIncludes(t, m.from, m.to, "async"), name, m.params, m.from)>>
    ELSE <<>>

\* the forEach over the listed names
ListedSignatures(t, names) ==
    [threw |-> \E k \in 1..Len(names) : RegExpThrows(names[k]),
     value |-> Concat([k \in 1..Len(names) |->
                          ListedSignature(t, names[k], FirstDefinition(t, 1, names[k]))])]

RawExportLists(t) == ListedSignatures(t, RawExportListNames(t))

\* exported-only branch: the declaration passes, then the listed names,
\* unless new RegExp threw
ExportedOnly(t, lists) ==
    [threw |-> lists.threw,
     value |-> IF lists.threw THEN <<>> ELSE RawExported(t) \o lists.value]

\* extractMethodsFromRawContent: the signatures, or the exception thrown
extractMethodsFromRawContent(t, includeAllMethods) ==
    IF includeAllMethods
    THEN [threw |-> FALSE, value |-> RawAllMethods(t)]
    ELSE ExportedOnly(t, RawExportLists(t))

\* ---- extractMethodSignatures

\* the outer catch clause: return []
OuterCatchRethrows == [threw |-> TRUE, value |-> <<>>]

OuterCatch == [threw |-> FALSE, value |-> <<>>]

\* a source file: whether readFileSync succeeds, and its declarations
SourceFile(readable, decls) == [readable |-> readable, decls |-> decls]

\* the outer try around the fallback: its result, or the catch clause
OuterTry(r) == IF r.threw THEN OuterCatch ELSE r

extractMethodSignatures(file, includeAllMethods) ==
    IF ~file.readable THEN OuterCatch
    ELSE IF Parses(file.decls)
    THEN [threw |-> FALSE, value |-> WalkNodes(file.decls, includeAllMethods, 1)]
    ELSE OuterTry(extractMethodsFromRawContent(RenderDecls(file.decls), includeAllMethods))

(***************************************************************************)
(* The directory tree and generateTree                                     *)
(***************************************************************************)

\* An entry of a directory.  stat: fs.statSync succeeds on it; read:
\* fs.readFileSync (a file) or fs.readdirSync (a directory) succeeds on it.
\* kids is the entry list in the order readdirSync returns it.
File(name, stat, read, newlines, decls) ==
    [name |-> name, type |-> "file", stat |-> stat, read |-> read,
     newlines |-> newlines, decls |-> decls, kids |-> <<>>]
Dir(name, stat, read, kids) ==
    [name |-> name, type |-> "dir", stat |-> stat, read |-> read,
     newlines |-> 0, decls |-> <<>>, kids |-> kids]

\* a < b in the order of Array.prototype.sort() without a comparator:
\* by UTF-16 code units, a proper prefix first
StrLess(a, b) ==
    \E k \in 1..(Len(b)) :
        /\ k <= Len(a) + 1
        /\ \A m \in 1..(k - 1) : a[m] = b[m]
        /\ k = Len(a) + 1 \/ CharCode(a[k]) < CharCode(b[k])

\* items.filter(keep).sort(): the kept entries by increasing name
RECURSIVE SortedByName(_)
SortedByName(S) ==
    IF S = {} THEN <<>>
    ELSE LET least == CHOOSE e \in S : \A o \in S \ {e} : StrLess(e.name, o.name)
         IN  <<least>> \o SortedByName(S \ {least})

\* path.extname of an entry name
ExtName(name) ==
    LET dots == {k \in 2..Len(name) : name[k] = "."}
    IN  IF dots = {} THEN <<>>
        ELSE SubSeq(name, CHOOSE k \in dots : \A m \in dots : m <= k, Len(name))

IsHidden(name) == Len(name) > 0 /\ name[1] = "."

shouldExcludeFile(excludeFiles, name) == Includes(excludeFiles, name)

\* One line of the tree text.  prefix is the list of ancestor columns
\* ("bar" for "|  ", "blank" for "   "), last chooses the corner over the
\* junction; what is "dir" (name/), "file" (name (n lines)), "unreadable"
\* (name (error reading file)) or "method" (a signature under a file).
Line(prefix, last, what, name, lineCount, sig) ==
    [prefix |-> prefix, last |-> last, what |-> what, name |-> name,
     lineCount |-> lineCount, sig |-> sig]

NoSig == [exp |-> "none", async |-> FALSE, name |-> "", params |-> <<>>]

\* the signature string, without the position kept beside it
SigText(s) == [exp |-> s.exp, async |-> s.async, name |-> s.name, params |-> s.params]

Column(isLastItem) == IF isLastItem THEN "blank" ELSE "bar"

Returned(out, warnings) == [threw |-> FALSE, out |-> out, warnings |-> warnings]
Thrown(warnings) == [threw |-> TRUE, out |-> <<>>, warnings |-> warnings]

ExceedsDepth(level) == maxDepth.finite /\ level > maxDepth.n

HasMethodExtensionAnyIncluded(includeExtensions, ext) ==
    Includes(includeExtensions, ext)

HasMethodExtension(includeExtensions, ext) ==
    Includes(includeExtensions, ext) /\ ext \in {S_js, S_mjs, S_cjs}

\* showMethods && INCLUDE_EXTENSIONS.includes(ext) && (ext === '.js' || ...)
WantsMethods(item, config) ==
    showMethods /\ HasMethodExtension(config.includeExtensions, ExtName(item.name))

\* methods.forEach: one line per signature, under the file
MethodLines(methodPrefix, methods) ==
    [k \in 1..Len(methods) |->
        Line(methodPrefix, k = Len(methods), "method", <<>>, 0, SigText(methods[k]))]

\* the try block for a file whose stat and read succeed; ex is the outcome
\* of extractMethodSignatures when it is called
TryFileLines(item, prefix, isLastItem, wanted, ex) ==
    <<Line(prefix, isLastItem, "file", item.name, item.newlines + 1, NoSig)>>
        \o MethodLines(Append(prefix, Column(isLastItem)),
                       IF wanted /\ ~ex.threw THEN ex.value ELSE <<>>)
        \o IF wanted /\ ex.threw
           THEN <<Line(prefix, isLastItem, "unreadable", <<>>, 0, NoSig)>>
           ELSE <<>>

\* the lines of one file entry: the try block of the forEach callback and
\* its catch
FileLines(item, prefix, isLastItem, config) ==
    IF ~item.stat \/ ~item.read
    THEN <<Line(prefix, isLastItem, "unreadable", item.name, 0, NoSig)>>
    ELSE TryFileLines(item, prefix, isLastItem, WantsMethods(item, config),
                      extractMethodSignatures(SourceFile(item.read, item.decls),
                                              showAllMethods))

\* allItems: the surviving directories by name, then the surviving files
AllItemsMixed(dir, relativePath, config) ==
    SortedByName({dir.kids[k] : k \in {k \in 1..Len(dir.kids) :
        /\ ~IsHidden(dir.kids[k].name)
        /\ IF dir.kids[k].type = "dir"
           THEN ~shouldExcludePath(config.excludePaths,
                                   PathJoin(relativePath, dir.kids[k].name))
           ELSE ~shouldExcludeFile(config.excludeFiles, dir.kids[k].name)}})

AllItems(dir, relativePath, config) ==
    LET files == SortedByName({dir.kids[k] : k \in {k \in 1..Len(dir.kids) :
                     /\ dir.kids[k].type # "dir"
                     /\ ~IsHidden(dir.kids[k].name)
                     /\ ~shouldExcludeFile(config.excludeFiles, dir.kids[k].name)}})
        dirs == SortedByName({dir.kids[k] : k \in {k \in 1..Len(dir.kids) :
                     /\ dir.kids[k].type = "dir"
                     /\ ~IsHidden(dir.kids[k].name)
                     /\ ~shouldExcludePath(config.excludePaths,
                                           PathJoin(relativePath, dir.kids[k].name))}})
    IN  dirs \o files

\* level > maxDepth
DepthCheckOffByOne(level) == maxDepth.finite /\ level >= maxDepth.n

DepthCheck(level) == ExceedsDepth(level)

\* a directory entry: its line, then what the recursive call returned
DirLines(item, prefix, isLastItem, sub) ==
    [sub EXCEPT !.out = <<Line(prefix, isLastItem, "dir", item.name, 0, NoSig)>> \o @]

\* output += ..., over the items: an exception in one ends the loop
OutputAppend(this, rest) ==
    IF this.threw THEN Thrown(this.warnings)
    ELSE [rest EXCEPT !.out = this.out \o @, !.warnings = this.warnings + @]

\* the warnings of loadConfig precede those of the traversal below
WarnedFirst(warnings, r) == [r EXCEPT !.warnings = warnings + @]

\* generateTree(dirPath, level, relativePath, isLast, prefix): the text
\* returned, or the exception that leaves it, and the warning lines written
RECURSIVE generateTree(_, _, _, _)
RECURSIVE RenderItems(_, _, _, _, _, _)
\* the forEach callback on one item of allItems
RenderItem(item, isLastItem, level, relativePath, prefix, config) ==
    IF item.type = "dir"
    THEN DirLines(item, prefix, isLastItem,
                  generateTree(item, level + 1, PathJoin(relativePath, item.name),
                               Append(prefix, Column(isLastItem))))
    ELSE Returned(FileLines(item, prefix, isLastItem, config), 0)

RenderItems(items, k, level, relativePath, prefix, config) ==
    IF k > Len(items) THEN Returned(<<>>, 0)
    ELSE OutputAppend(
             RenderItem(items[k], k = Len(items), level, relativePath, prefix, config),
             RenderItems(items, k + 1, level, relativePath, prefix, config))

\* the body of generateTree once loadConfig has returned cfg
GenerateWith(cfg, dir, level, relativePath, prefix) ==
    IF cfg.threw THEN Thrown(cfg.warnings)
    ELSE IF DepthCheck(level) THEN Returned(<<>>, cfg.warnings)
    ELSE IF level > 0 /\ shouldExcludePath(cfg.config.excludePaths, relativePath)
    THEN Returned(<<>>, cfg.warnings)
    ELSE IF ~dir.read THEN Thrown(cfg.warnings)
    ELSE IF \E k \in 1..Len(dir.kids) : ~dir.kids[k].stat THEN Thrown(cfg.warnings)
    ELSE WarnedFirst(cfg.warnings,
                     RenderItems(AllItems(dir, relativePath, cfg.config), 1, level,
                                 relativePath, prefix, cfg.config))

generateTree(dir, level, relativePath, prefix) ==
    GenerateWith(loadConfig(configFile), dir, level, relativePath, prefix)

(***************************************************************************)
(* Specification SpecPathFilter: shouldExcludePath on drawn inputs         *)
(***************************************************************************)

\* Most "/"-separated segments of a drawn relative path
MaxSegs == 2

SegmentNames == {S_lib, S_library, S_build, S_buildtools, S_src, S_x_js}

RuleUniverse == {S_lib, S_build, S_src, S_src_build, <<"b">>}

RECURSIVE JoinAll(_)
JoinAll(segs) ==
    IF segs = <<>> THEN <<>>
    ELSE PathJoin(JoinAll(SubSeq(segs, 1, Len(segs) - 1)), segs[Len(segs)])

\* The relative paths path.join builds from entry names: no empty segment
RelPaths == {JoinAll(q) : q \in SeqsUpTo(SegmentNames, MaxSegs) \ {<<>>}}

UserConfigs(universe) ==
    {ConfigFileIn("valid", [NoJson EXCEPT !.excludePaths = Given(l)]) :
        l \in SeqsUpTo(universe, MaxListLen)}

NotCalled == [called |-> FALSE, excluded |-> FALSE]

PathIdle ==
    /\ EXCLUDE_PATHS = <<>>
    /\ checkedPath = <<>>
    /\ pathExcluded = NotCalled

PathInit ==
    /\ \E cf \in UserConfigs(RuleUniverse) :
           EXCLUDE_PATHS = loadConfig(cf).config.excludePaths
    /\ checkedPath = <<>>
    /\ pathExcluded = NotCalled

CallShouldExcludePath(p) ==
    /\ checkedPath' = p
    /\ pathExcluded' = [called |-> TRUE, excluded |-> shouldExcludePath(EXCLUDE_PATHS, p)]
    /\ UNCHANGED <<EXCLUDE_PATHS, cfgVars, exVars, treeVars>>

PathNext == \E p \in RelPaths : CallShouldExcludePath(p)

(***************************************************************************)
(* Specification SpecLoadConfig: loadConfig on drawn configuration files   *)
(***************************************************************************)

ExtUniverse == {S_ts, S_js}

JsonValues(universe) ==
    {Undefined} \cup {Given(l) : l \in SeqsUpTo(universe, MaxListLen)}

ConfigFiles ==
    {ConfigFileIn(s, NoJson) : s \in {"absent", "unreadable", "malformed", "null"}}
    \cup
    {ConfigFileIn("valid",
                  [excludePaths |-> ep, excludeDirs |-> ed,
                   excludeFiles |-> ef, includeExtensions |-> ie]) :
        ep \in JsonValues({S_build, S_lib}), ed \in JsonValues({S_src}),
        ef \in JsonValues({S_x_js}), ie \in JsonValues(ExtUniverse)}

NotLoaded == [called |-> FALSE, threw |-> FALSE, config |-> DefaultsCopy, warnings |-> 0]

CfgIdle ==
    /\ configFile = ConfigFileIn("absent", NoJson)
    /\ loaded = NotLoaded

CfgInit ==
    /\ configFile \in ConfigFiles
    /\ loaded = NotLoaded

CallLoadConfig ==
    /\ ~loaded.called
    /\ LET r == loadConfig(configFile)
       IN  loaded' = [called |-> TRUE, threw |-> r.threw,
                      config |-> r.config, warnings |-> r.warnings]
    /\ UNCHANGED <<configFile, pathVars, exVars, treeVars>>

\* The file is edited between two runs of the tool
EditConfigFile ==
    /\ loaded.called
    /\ configFile' \in ConfigFiles
    /\ loaded' = NotLoaded
    /\ UNCHANGED <<pathVars, exVars, treeVars>>

CfgNext == CallLoadConfig \/ EditConfigFile

(***************************************************************************)
(* Specification SpecExtract: extractMethodSignatures on drawn files       *)
(***************************************************************************)

\* Most top-level declarations of a drawn file
MaxDecls == 2

P_none == <<>>
P_a == <<Ident("a")>>
P_ab == <<Ident("a"), Ident("b")>>
P_dflt == <<Dflt("a", <<"1">>)>>
P_call == <<Ident("b"), Dflt("a", <<"f", "(", ")">>)>>
P_rest == <<Rest("r")>>
P_obj == <<ObjPat(<<"p", "q">>)>>
P_arr == <<ArrPat("x")>>

Local(n) == [local |-> n, alias |-> ""]
LocalAs(n, a) == [local |-> n, alias |-> a]

DeclUniverse ==
    { Fn("none", FALSE, "outer", P_a, <<Fn("none", FALSE, "inner", P_none, <<>>)>>),
      Fn("none", TRUE, "load", P_dflt, <<>>),
      Fn("none", FALSE, "helper", P_none, <<>>),
      Fn("named", FALSE, "add", P_ab, <<>>),
      Fn("named", TRUE, "save", P_call, <<>>),
      Fn("default", TRUE, "", P_none, <<>>),
      Fn("default", FALSE, "main", P_rest, <<>>),
      Fn("named", FALSE, "asyncTask", P_a, <<>>),
      Fn("none", FALSE, "exportData", P_none, <<>>),
      Fn("named", FALSE, "defaultHandler", P_none, <<>>),
      Var("none", FALSE, "helper", "arrow", P_obj, <<>>),
      Var("named", TRUE, "fetch", "arrow", P_dflt, <<>>),
      Var("named", FALSE, "handler", "funcexpr", P_arr, <<>>),
      Var("none", FALSE, "count", "other", P_none, <<>>),
      DefExpr("arrow", TRUE, P_dflt),
      DefExpr("funcexpr", FALSE, P_none),
      DefExpr("other", FALSE, P_none),
      Class("K", TRUE, "run", P_a),
      ExportList(<<Local("outer"), LocalAs("helper", "h")>>),
      ExportList(<<Local("a(")>>),
      SyntaxError }

SourceFiles ==
    {SourceFile(r, ds) : r \in BOOLEAN, ds \in SeqsUpTo(DeclUniverse, MaxDecls)}

NotExtracted == [called |-> FALSE, threw |-> FALSE, value |-> <<>>]

ExIdle ==
    /\ sourceFile = SourceFile(TRUE, <<>>)
    /\ showAllMethods = FALSE
    /\ extracted = NotExtracted

ExInit ==
    /\ sourceFile \in SourceFiles
    /\ showAllMethods \in BOOLEAN
    /\ extracted = NotExtracted

CallExtractMethodSignatures ==
    /\ ~extracted.called
    /\ LET r == extractMethodSignatures(sourceFile, showAllMethods)
       IN  extracted' = [called |-> TRUE, threw |-> r.threw, value |-> r.value]
    /\ UNCHANGED <<sourceFile, showAllMethods, pathVars, cfgVars, treeVars>>

\* the same file is scanned again in the other mode
RunOtherMode ==
    /\ extracted.called
    /\ showAllMethods' = ~showAllMethods
    /\ extracted' = NotExtracted
    /\ UNCHANGED <<sourceFile, pathVars, cfgVars, treeVars>>

ExNext == CallExtractMethodSignatures \/ RunOtherMode

(***************************************************************************)
(* Specification Spec: runs of the tool over drawn directory trees         *)
(***************************************************************************)

\* Largest --depth drawn
MaxDepthArg == 2

\* Most runs of the tool over the same tree
MaxRuns == 2

S_zzz == <<"z", "z", "z">>
S_aaa == <<"a", "a", "a">>
S_m_js == <<"m", ".", "j", "s">>
S_b_js == <<"b", ".", "j", "s">>
S_c_js == <<"c", ".", "j", "s">>
S_sub == <<"s", "u", "b">>
S_git == <<".", "g", "i", "t">>
S_n_ts == <<"n", ".", "t", "s">>
S_d_json == <<"d", ".", "j", "s", "o", "n">>

SampleDecls == <<Fn("named", FALSE, "add", P_ab, <<>>), Fn("none", TRUE, "load", P_dflt, <<>>)>>

F_b == File(S_b_js, TRUE, TRUE, 2, SampleDecls)
D_sub == Dir(S_sub, TRUE, TRUE, <<File(S_c_js, TRUE, TRUE, 0, <<>>)>>)

\* what a directory below the root may hold
SubKidLists ==
    { <<>>, <<F_b>>, <<F_b, D_sub>>, <<D_sub, File(S_aaa, TRUE, FALSE, 0, <<>>)>>,
      <<File(S_b_js, FALSE, FALSE, 0, <<>>)>>, <<Dir(S_sub, TRUE, FALSE, <<>>)>> }

\* what the root may hold under each of its names; <<>> is "no such entry"
RootSlot1 ==
    {<<>>, <<File(S_zzz, TRUE, TRUE, 0, <<>>)>>}
        \cup {<<Dir(S_zzz, TRUE, TRUE, ks)>> : ks \in SubKidLists}
RootSlot2 ==
    { <<>>, <<File(S_aaa, TRUE, TRUE, 1, <<>>)>>, <<File(S_aaa, TRUE, FALSE, 0, <<>>)>>,
      <<File(S_aaa, FALSE, FALSE, 0, <<>>)>>, <<Dir(S_aaa, TRUE, TRUE, <<F_b>>)>> }
RootSlot3 ==
    { <<>>, <<File(S_m_js, TRUE, TRUE, 3, SampleDecls)>>,
      <<File(S_m_js, TRUE, FALSE, 0, <<>>)>>,
      <<File(S_n_ts, TRUE, TRUE, 3, SampleDecls)>>,
      <<File(S_d_json, TRUE, TRUE, 3, SampleDecls)>> }
RootSlot4 ==
    { <<>>, <<Dir(S_node_modules, TRUE, TRUE, <<F_b>>)>>, <<Dir(S_git, TRUE, TRUE, <<F_b>>)>>,
      <<File(S_package_lock, TRUE, TRUE, 9, <<>>)>>, <<Dir(S_build, TRUE, TRUE, <<F_b>>)>> }

\* readdirSync returns the entries in either order
RootDirs ==
    {Dir(<<>>, TRUE, TRUE, a \o b \o c \o d) :
        a \in RootSlot1, b \in RootSlot2, c \in RootSlot3, d \in RootSlot4}
    \cup {Dir(<<>>, TRUE, TRUE, d \o c \o b \o a) :
        a \in RootSlot1, b \in RootSlot2, c \in RootSlot3, d \in RootSlot4}

TreeConfigFiles ==
    { ConfigFileIn("absent", NoJson), ConfigFileIn("malformed", NoJson),
      ConfigFileIn("valid", [NoJson EXCEPT !.excludePaths = Given(<<S_build>>),
                                           !.excludeFiles = Given(<<S_c_js>>)]),
      ConfigFileIn("valid", [NoJson EXCEPT !.includeExtensions = Given(<<S_ts>>)]) }

Unbounded == [finite |-> FALSE, n |-> 0]
DepthArgs == {Unbounded} \cup {[finite |-> TRUE, n |-> n] : n \in 0..MaxDepthArg}

TreeIdle ==
    /\ rootDir = Dir(<<>>, TRUE, TRUE, <<>>)
    /\ maxDepth = Unbounded
    /\ showMethods = TRUE
    /\ runs = <<>>

\* the main block, were the output text kept across runs
MainAccumulating ==
    /\ Len(runs) < MaxRuns
    /\ runs' = Append(runs,
                      [generateTree(rootDir, 0, <<>>, <<>>) EXCEPT
                          !.out = (IF runs = <<>> THEN <<>> ELSE runs[Len(runs)].out) \o @])
    /\ UNCHANGED <<rootDir, maxDepth, showMethods, showAllMethods, configFile>>
    /\ UNCHANGED <<pathVars, loaded, sourceFile, extracted>>

\* the main block: the tree of customRootDir is generated and printed, or
\* the exception is reported and the process exits with status 1
Main ==
    /\ Len(runs) < MaxRuns
    /\ runs' = Append(runs, generateTree(rootDir, 0, <<>>, <<>>))
    /\ UNCHANGED <<rootDir, maxDepth, showMethods, showAllMethods, configFile>>
    /\ UNCHANGED <<pathVars, loaded, sourceFile, extracted>>

TreeNext == Main

(***************************************************************************)
(* Specifications                                                          *)
(***************************************************************************)

PathFilterInit == PathInit /\ CfgIdle /\ ExIdle /\ TreeIdle

SpecPathFilter == PathFilterInit /\ [][PathNext]_vars

LoadConfigInit == CfgInit /\ PathIdle /\ ExIdle /\ TreeIdle

SpecLoadConfig == LoadConfigInit /\ [][CfgNext]_vars

ExtractInit == ExInit /\ PathIdle /\ CfgIdle /\ TreeIdle

SpecExtract == ExtractInit /\ [][ExNext]_vars

Init ==
    /\ rootDir \in RootDirs
    /\ maxDepth \in DepthArgs
    /\ showMethods \in BOOLEAN
    /\ showAllMethods \in BOOLEAN
    /\ configFile \in TreeConfigFiles
    /\ runs = <<>>
    /\ EXCLUDE_PATHS = <<>>
    /\ checkedPath = <<>>
    /\ pathExcluded = NotCalled
    /\ loaded = NotLoaded
    /\ sourceFile = SourceFile(TRUE, <<>>)
    /\ extracted = NotExtracted

Next == TreeNext

Spec == Init /\ [][Next]_vars

(***************************************************************************)
(* Claims on the path filter (under SpecPathFilter)                        *)
(***************************************************************************)

HasSlash(s) == \E k \in 1..Len(s) : s[k] = "/"

\* positions i..j of p delimit one whole "/"-separated segment of p
IsSegmentAt(p, i, j) ==
    /\ i = 1 \/ p[i - 1] = "/"
    /\ j = Len(p) \/ p[j + 1] = "/"
    /\ \A k \in i..j : p[k] # "/"

IsWholeSegment(p, rule) ==
    \E i \in 1..(Len(p) + 1) : \E j \in (i - 1)..Len(p) :
        IsSegmentAt(p, i, j) /\ SubSeq(p, i, j) = rule

RuleCovers(p, rule) ==
    \/ p = rule
    \/ /\ Len(rule) + 1 <= Len(p)
       /\ \A k \in 1..Len(rule) : p[k] = rule[k]
       /\ p[Len(rule) + 1] = "/"
    \/ IsWholeSegment(p, rule)

\* C1: shouldExcludePath is true iff some rule equals the path, or the path
\* starts with rule + "/", or a whole segment of the path equals the rule;
\* rules that are at most substrings of segments exclude nothing.
C1_PathExclusion ==
    pathExcluded.called =>
        /\ pathExcluded.excluded <=>
              \E k \in 1..Len(EXCLUDE_PATHS) : RuleCovers(checkedPath, EXCLUDE_PATHS[k])
        /\ (\A k \in 1..Len(EXCLUDE_PATHS) :
               /\ ~HasSlash(EXCLUDE_PATHS[k])
               /\ ~IsWholeSegment(checkedPath, EXCLUDE_PATHS[k]))
           => ~pathExcluded.excluded

\* rule "build" against "buildtools/x.js": a substring of a segment only
C1_Witness ==
    /\ pathExcluded.called
    /\ checkedPath = PathJoin(S_buildtools, S_x_js)
    /\ Includes(EXCLUDE_PATHS, S_build)
    /\ ~pathExcluded.excluded

\* rule "build" against "src/build": a whole segment
C1_SegmentReached ==
    /\ pathExcluded.called
    /\ checkedPath = PathJoin(S_src, S_build)
    /\ EXCLUDE_PATHS = <<S_node_modules, S_build>>
    /\ pathExcluded.excluded

(***************************************************************************)
(* Claims on the configuration loader (under SpecLoadConfig)               *)
(***************************************************************************)

FileList(key) == OrElse(configFile.json[key], <<>>)

\* C6 as stated: each of the three lists of the Config of a valid file is the
\* default list followed by the file's entries.
C6_AllThreeAdditive ==
    (loaded.called /\ configFile.state = "valid") =>
        /\ loaded.config.excludePaths =
              DEFAULT_CONFIG.excludePaths \o FileList("excludePaths") \o FileList("excludeDirs")
        /\ loaded.config.excludeFiles =
              DEFAULT_CONFIG.excludeFiles \o FileList("excludeFiles")
        /\ loaded.config.includeExtensions =
              DEFAULT_CONFIG.includeExtensions \o FileList("includeExtensions")

\* C6 amended: the excluded paths and the excluded files of a valid file are
\* the defaults followed by the file's entries (excludePaths, then
\* excludeDirs), so every default stays; the included extensions are the
\* file's list when it gives one, replacing the defaults, and the defaults
\* otherwise.
C6_ExclusionsAdditive ==
    (loaded.called /\ configFile.state = "valid") =>
        /\ ~loaded.threw
        /\ StartsWith(loaded.config.excludePaths, DEFAULT_CONFIG.excludePaths)
        /\ StartsWith(loaded.config.excludeFiles, DEFAULT_CONFIG.excludeFiles)
        /\ SubSeq(loaded.config.excludePaths, Len(DEFAULT_CONFIG.excludePaths) + 1,
                  Len(loaded.config.excludePaths))
              = FileList("excludePaths") \o FileList("excludeDirs")
        /\ SubSeq(loaded.config.excludeFiles, Len(DEFAULT_CONFIG.excludeFiles) + 1,
                  Len(loaded.config.excludeFiles))
              = FileList("excludeFiles")
        /\ loaded.config.includeExtensions =
              IF configFile.json.includeExtensions.present
              THEN configFile.json.includeExtensions.val
              ELSE DEFAULT_CONFIG.includeExtensions

C6_Witness ==
    /\ loaded.called
    /\ configFile.state = "valid"
    /\ configFile.json.excludePaths = Given(<<S_build>>)
    /\ configFile.json.excludeDirs = Given(<<S_src>>)
    /\ configFile.json.includeExtensions = Given(<<S_ts>>)
    /\ loaded.config.excludePaths = <<S_node_modules, S_build, S_src>>
    /\ loaded.config.includeExtensions = <<S_ts>>

Unusable == {"absent", "unreadable", "malformed", "null"}

\* C7 as stated: an absent, unreadable or malformed file makes loadConfig
\* return the defaults without throwing, and a warning is written.
C7_DefaultsAndWarning ==
    (loaded.called /\ configFile.state \in Unusable) =>
        /\ ~loaded.threw
        /\ loaded.config = DEFAULT_CONFIG
        /\ loaded.warnings > 0

\* C7 amended: an absent, unreadable or malformed file makes loadConfig
\* return the defaults without throwing; the warning is written when the
\* file exists and cannot be read or parsed, and not when it is absent.
C7_DefaultsWarnUnlessAbsent ==
    (loaded.called /\ configFile.state \in Unusable) =>
        /\ ~loaded.threw
        /\ loaded.config = DEFAULT_CONFIG
        /\ (loaded.warnings > 0) <=> (configFile.state # "absent")

C7_Witness ==
    /\ loaded.called
    /\ configFile.state = "malformed"
    /\ loaded.warnings = 2
    /\ loaded.config = DEFAULT_CONFIG

C7_AbsentReached ==
    /\ loaded.called
    /\ configFile.state = "absent"
    /\ loaded.warnings = 0

(***************************************************************************)
(* Claims on the signature extractor (under SpecExtract)                   *)
(***************************************************************************)

UsesFallback == sourceFile.readable /\ ~Parses(sourceFile.decls)
UsesStructural == sourceFile.readable /\ Parses(sourceFile.decls)

\* C3: extractMethodSignatures never throws: an unreadable file, a failed
\* parse and a failure inside the textual fallback all end in a returned
\* sequence.
C3_NeverThrows ==
    extracted.called =>
        /\ ~extracted.threw
        /\ (~sourceFile.readable => extracted.value = <<>>)

\* the fallback itself throws (new RegExp on an export-list name), and the
\* call still returns
C3_Witness ==
    /\ extracted.called
    /\ UsesFallback
    /\ extractMethodsFromRawContent(RenderDecls(sourceFile.decls), showAllMethods).threw
    /\ ~extracted.threw

C3_UnreadableReached ==
    /\ extracted.called
    /\ ~sourceFile.readable
    /\ sourceFile.decls # <<>>
    /\ extracted.value = <<>>

\* a default value in a signature's parameter text is written "= ..."
DefaultsElided(params) ==
    \A k \in 1..Len(params) :
        params[k] = "=" => /\ Tok(params, k + 1) = "..."
                           /\ Tok(params, k + 2) \in {"", ","}

\* C8: in both strategies a parameter with a default value is rendered as
\* `name = ...`, the default expression never echoed.
C8_DefaultNeverEchoed ==
    extracted.called =>
        \A k \in 1..Len(extracted.value) : DefaultsElided(extracted.value[k].params)

\* the structural strategy does elide the default
C8_StructuralReached ==
    /\ extracted.called
    /\ UsesStructural
    /\ \E k \in 1..Len(extracted.value) :
          extracted.value[k].params = <<"a", "=", "...">>

TopStart(i) == StartOf(sourceFile.decls, i, 1)

IsDefaultFunctionExport(d) ==
    /\ d.exp = "default"
    /\ d.kind = "function" \/ (d.kind = "defaultExpr" /\ IsFunctionInit(d))

\* the signatures emitted for the declaration starting at token index at
SigsAt(at) == {k \in 1..Len(extracted.value) : extracted.value[k].at = at}

AnonymousDefaultFile == <<Fn("default", TRUE, "", <<>>, <<>>)>>

\* C9 as stated: in a file that parses, a default-exported function
\* declaration, arrow or function expression is emitted tagged default, its
\* name the literal "default" when it is anonymous, and
\* `export default async function () {}` gives exactly that one signature.
C9_AnonymousNamedDefault ==
    (extracted.called /\ UsesStructural) =>
        /\ \A i \in 1..Len(sourceFile.decls) :
              IsDefaultFunctionExport(sourceFile.decls[i]) =>
                  \E k \in SigsAt(TopStart(i)) :
                      /\ extracted.value[k].exp = "default"
                      /\ sourceFile.decls[i].name = ""
                            => extracted.value[k].name = "default"
        /\ sourceFile.decls = AnonymousDefaultFile =>
              extracted.value = <<Sig("default", TRUE, "default", <<>>, 1)>>

\* C9 amended: in a file that parses, in either mode, a default-exported
\* function declaration, arrow or function expression is emitted exactly once
\* tagged default, with the declaration's own async marker; an anonymous
\* function declaration is named "default", a named one by its name, and an
\* arrow or function expression is rendered with the word "function" in the
\* place of the name; `export default async function () {}` gives exactly the
\* one signature named "default".
C9_DefaultExportTagged ==
    (extracted.called /\ UsesStructural) =>
        /\ \A i \in 1..Len(sourceFile.decls) :
              LET d == sourceFile.decls[i]
                  tagged == {k \in SigsAt(TopStart(i)) : extracted.value[k].exp = "default"}
              IN  IsDefaultFunctionExport(d) =>
                      /\ Cardinality(tagged) = 1
                      /\ \A k \in tagged :
                            /\ extracted.value[k].async = d.async
                            /\ extracted.value[k].name =
                                  IF d.kind = "defaultExpr" THEN "function"
                                  ELSE IF d.name = "" THEN "default" ELSE d.name
        /\ sourceFile.decls = AnonymousDefaultFile =>
              extracted.value = <<Sig("default", TRUE, "default", <<>>, 1)>>

C9_Witness ==
    /\ extracted.called
    /\ sourceFile.readable
    /\ showAllMethods
    /\ sourceFile.decls = AnonymousDefaultFile
    /\ Len(extracted.value) = 1
    /\ extracted.value[1].name = "default"

C9_ArrowReached ==
    /\ extracted.called
    /\ UsesStructural
    /\ sourceFile.decls = <<DefExpr("arrow", TRUE, P_dflt)>>
    /\ extracted.value = <<Sig("default", TRUE, "function", <<"a", "=", "...">>, 1)>>

\* the token indices at which the declarations of ds, and those nested in
\* them, start
RECURSIVE DeclStarts(_, _)
DeclStarts(ds, base) ==
    UNION {{StartOf(ds, i, base)}
              \cup DeclStarts(ds[i].inner, InnerBase(ds[i], StartOf(ds, i, base))) :
           i \in 1..Len(ds)}

\* the start of the declaration a token index lies in
DeclarationOf(at) ==
    LET before == {s \in DeclStarts(sourceFile.decls, 1) : s <= at}
    IN  IF before = {} THEN at ELSE CHOOSE s \in before : \A u \in before : u <= s

\* C10: the signatures of a file are in the source order of their
\* declarations, under either strategy.
C10_SourceOrder ==
    extracted.called =>
        \A j, k \in 1..Len(extracted.value) :
            j < k => DeclarationOf(extracted.value[j].at)
                        <= DeclarationOf(extracted.value[k].at)

\* the nested function is emitted before the function enclosing it
C10_NestedFirstReached ==
    /\ extracted.called
    /\ UsesStructural
    /\ Len(extracted.value) = 2
    /\ extracted.value[1].name = "inner"
    /\ extracted.value[2].name = "outer"

\* the fallback emits a function declared after an arrow before the arrow
C10_FallbackPassesReached ==
    /\ extracted.called
    /\ UsesFallback
    /\ Len(extracted.value) = 2
    /\ extracted.value[1].at > extracted.value[2].at

(***************************************************************************)
(* Claims on the tool run (under Spec)                                     *)
(***************************************************************************)

\* every directory of the tree below d can be stat'ed and listed
RECURSIVE DirsUsable(_)
DirsUsable(d) ==
    /\ d.stat /\ d.read
    /\ \A k \in 1..Len(d.kids) : d.kids[k].type = "dir" => DirsUsable(d.kids[k])

\* the entries of the root that survive the filters of the current config
RootSurvivors(type) ==
    LET config == loadConfig(configFile).config
    IN  {k \in 1..Len(rootDir.kids) :
            /\ rootDir.kids[k].type = type
            /\ ~IsHidden(rootDir.kids[k].name)
            /\ type = "file" => rootDir.kids[k].name \notin
                  {config.excludeFiles[m] : m \in 1..Len(config.excludeFiles)}
            /\ type = "dir" => \A m \in 1..Len(config.excludePaths) :
                  config.excludePaths[m] # rootDir.kids[k].name}

HasLine(out, what, name, depth) ==
    \E m \in 1..Len(out) :
        out[m].what = what /\ out[m].name = name /\ Len(out[m].prefix) = depth

\* C2: a file whose content or stats cannot be read does not stop the
\* traversal, and is listed with the unreadable marker and no signatures.
C2_FileFailuresContained ==
    \A r \in 1..Len(runs) :
        DirsUsable(rootDir) =>
            /\ ~runs[r].threw
            /\ \A k \in RootSurvivors("file") :
                  (~rootDir.kids[k].stat \/ ~rootDir.kids[k].read) =>
                      /\ HasLine(runs[r].out, "unreadable", rootDir.kids[k].name, 0)
                      /\ ~HasLine(runs[r].out, "file", rootDir.kids[k].name, 0)

\* a file whose content cannot be read is listed with the marker
C2_ReadFailureReached ==
    /\ Len(runs) > 0
    /\ ~runs[1].threw
    /\ \E k \in 1..Len(rootDir.kids) :
          /\ rootDir.kids[k].type = "file" /\ ~rootDir.kids[k].read
          /\ HasLine(runs[1].out, "unreadable", rootDir.kids[k].name, 0)

\* lines j < k name entries of one directory: entry lines of equal prefix
\* with no line of a shallower level between them
Siblings(out, j, k) ==
    /\ j < k
    /\ out[j].what # "method" /\ out[k].what # "method"
    /\ out[j].prefix = out[k].prefix
    /\ \A m \in j..k : Len(out[m].prefix) >= Len(out[j].prefix)

NameBefore(a, b) ==
    \E i \in 1..Len(b) :
        /\ i <= Len(a) + 1
        /\ SubSeq(a, 1, i - 1) = SubSeq(b, 1, i - 1)
        /\ i = Len(a) + 1 \/ CharCode(a[i]) < CharCode(b[i])

\* C4: in every directory of the rendered tree the subdirectories come
\* before the files whatever their names, and the subdirectories, and the
\* files, are in increasing order of name.
C4_DirsFirstSorted ==
    \A r \in 1..Len(runs) :
        LET out == runs[r].out
        IN  \A j, k \in 1..Len(out) :
                Siblings(out, j, k) =>
                    /\ ~(out[j].what # "dir" /\ out[k].what = "dir")
                    /\ (out[j].what = "dir") = (out[k].what = "dir")
                          => NameBefore(out[j].name, out[k].name)

\* directory zzz is listed before file aaa
C4_Witness ==
    /\ Len(runs) > 0
    /\ \E j, k \in 1..Len(runs[1].out) :
          /\ Siblings(runs[1].out, j, k)
          /\ runs[1].out[j].what = "dir" /\ runs[1].out[j].name = S_zzz
          /\ runs[1].out[k].what = "file" /\ runs[1].out[k].name = S_aaa

\* C5: with a finite maximum depth D, the root being at depth 0, no entry of
\* a directory deeper than D is listed, while the directories themselves are
\* still named by their parents: those of the root always, and those of a
\* directory of the root when D >= 1.
C5_DepthLimit ==
    \A r \in 1..Len(runs) :
        (maxDepth.finite /\ ~runs[r].threw) =>
            LET out == runs[r].out
                config == loadConfig(configFile).config
            IN  /\ \A m \in 1..Len(out) :
                      Len(out[m].prefix) <=
                          IF out[m].what = "method" THEN maxDepth.n + 1 ELSE maxDepth.n
                /\ \A k \in RootSurvivors("dir") :
                      /\ HasLine(out, "dir", rootDir.kids[k].name, 0)
                      /\ \A s \in 1..Len(rootDir.kids[k].kids) :
                            LET sub == rootDir.kids[k].kids[s]
                            IN  (/\ maxDepth.n >= 1
                                 /\ sub.type = "dir"
                                 /\ ~IsHidden(sub.name)
                                 /\ ~Includes(config.excludePaths, sub.name)
                                 /\ ~Includes(config.excludePaths,
                                              PathJoin(rootDir.kids[k].name, sub.name)))
                                => HasLine(out, "dir", sub.name, 1)

\* depth 0: zzz/ holds entries, is named, and nothing below the root is listed
C5_Witness ==
    /\ Len(runs) > 0
    /\ maxDepth = [finite |-> TRUE, n |-> 0]
    /\ ~runs[1].threw
    /\ \E k \in 1..Len(rootDir.kids) :
          /\ rootDir.kids[k].type = "dir"
          /\ rootDir.kids[k].name = S_zzz
          /\ rootDir.kids[k].kids # <<>>
    /\ HasLine(runs[1].out, "dir", S_zzz, 0)
    /\ \A m \in 1..Len(runs[1].out) : runs[1].out[m].prefix = <<>>

\* depth 1: zzz/sub/ is named and not expanded
C5_DepthOneReached ==
    /\ Len(runs) > 0
    /\ maxDepth = [finite |-> TRUE, n |-> 1]
    /\ ~runs[1].threw
    /\ HasLine(runs[1].out, "dir", S_sub, 1)
    /\ ~HasLine(runs[1].out, "file", S_c_js, 2)

(***************************************************************************)
(* Claims on the markers of a signature (under SpecExtract)                *)
(***************************************************************************)

\* the declarations of ds and those nested in them, each with the token
\* index at which it starts
RECURSIVE DeclsFrom(_, _)
DeclsFrom(ds, base) ==
    UNION {{<<StartOf(ds, i, base), ds[i]>>}
              \cup DeclsFrom(ds[i].inner, InnerBase(ds[i], StartOf(ds, i, base))) :
           i \in 1..Len(ds)}

\* the declaration a signature was emitted for: the one its position lies in
DeclOfSig(sig) ==
    (CHOOSE p \in DeclsFrom(sourceFile.decls, 1) : p[1] = DeclarationOf(sig.at))[2]

\* C11: under both strategies and in both modes a signature carries the
\* async prefix exactly when its declaration carries the async marker.
C11_AsyncIffDeclared ==
    extracted.called =>
        \A k \in 1..Len(extracted.value) :
            extracted.value[k].async = DeclOfSig(extracted.value[k]).async

\* the structural strategy alone does read the declaration's own marker
C11_StructuralAsync ==
    (extracted.called /\ UsesStructural) =>
        \A k \in 1..Len(extracted.value) :
            extracted.value[k].async = DeclOfSig(extracted.value[k]).async

\* an async declaration reaches the fallback in allDeclarations mode and is
\* emitted without the prefix
C11_FallbackDropsAsyncReached ==
    /\ extracted.called
    /\ UsesFallback
    /\ showAllMethods
    /\ \E k \in 1..Len(extracted.value) :
          /\ extracted.value[k].name = "load"
          /\ ~extracted.value[k].async

\* a function that is not async, named asyncTask, reaches the fallback in
\* exportedOnly mode and is emitted with the prefix
C11_NameTakenForMarkerReached ==
    /\ extracted.called
    /\ UsesFallback
    /\ ~showAllMethods
    /\ \E k \in 1..Len(extracted.value) :
          /\ extracted.value[k].name = "asyncTask"
          /\ extracted.value[k].async

(***************************************************************************)
(* Claims on the exported-only mode (under SpecExtract)                    *)
(***************************************************************************)

\* d is exported by the file: by its own export marker, or by its name in
\* an export { ... } list
IsExported(d) ==
    \/ d.exp \in {"named", "default"}
    \/ \E i \in 1..Len(sourceFile.decls) :
          /\ sourceFile.decls[i].kind = "exportList"
          /\ \E n \in 1..Len(sourceFile.decls[i].names) :
                sourceFile.decls[i].names[n].local = d.name

ExportAddFile == <<Fn("named", FALSE, "add", P_ab, <<>>)>>

\* C12: without includeAllMethods, under either strategy, every signature
\* is that of an exported declaration and none is that of a class method;
\* a file holding only `export function add(a, b) {}` gives exactly one
\* signature: export add(a, b), not async.
C12_ExportedOnly ==
    (extracted.called /\ ~showAllMethods) =>
        /\ \A k \in 1..Len(extracted.value) :
              /\ extracted.value[k].exp \in {"named", "default"}
              /\ IsExported(DeclOfSig(extracted.value[k]))
              /\ DeclOfSig(extracted.value[k]).kind # "class"
        /\ (sourceFile.readable /\ sourceFile.decls = ExportAddFile) =>
              extracted.value = <<Sig("named", FALSE, "add", <<"a", ",", "b">>, 1)>>

\* the one-function file has been scanned in exported-only mode
C12_Witness ==
    /\ extracted.called
    /\ ~showAllMethods
    /\ sourceFile.readable
    /\ sourceFile.decls = ExportAddFile
    /\ Len(extracted.value) = 1

\* non-exported declarations and a class method were scanned in
\* exported-only mode by the structural strategy, and by the fallback, and
\* gave nothing
C12_StructuralSilentReached ==
    /\ extracted.called
    /\ ~showAllMethods
    /\ UsesStructural
    /\ sourceFile.decls = <<Fn("none", FALSE, "helper", P_none, <<>>), Class("K", TRUE, "run", P_a)>>
    /\ extracted.value = <<>>

C12_FallbackSilentReached ==
    /\ extracted.called
    /\ ~showAllMethods
    /\ UsesFallback
    /\ sourceFile.decls = <<Var("none", FALSE, "helper", "arrow", P_obj, <<>>), SyntaxError>>
    /\ extracted.value = <<>>

(***************************************************************************)
(* Claims on repeated runs (under Spec)                                    *)
(***************************************************************************)

NoExportList ==
    \A i \in 1..Len(sourceFile.decls) : sourceFile.decls[i].kind # "exportList"

\* C14: in a file without export lists the textual fallback tags a
\* signature as its declaration is marked: not exported without an export
\* marker, named with `export`, default with `export default`, in both
\* modes and whatever the declared name contains.
C14_FallbackExportKind ==
    (extracted.called /\ UsesFallback /\ NoExportList) =>
        \A k \in 1..Len(extracted.value) :
            extracted.value[k].exp = DeclOfSig(extracted.value[k]).exp

\* the structural strategy tags every exported declaration by its marker
C14_StructuralExportKind ==
    (extracted.called /\ UsesStructural) =>
        \A k \in 1..Len(extracted.value) :
            extracted.value[k].exp # "none" =>
                extracted.value[k].exp = DeclOfSig(extracted.value[k]).exp

\* function exportData, not exported, is tagged exported by the fallback
C14_NameTakenForExportReached ==
    /\ extracted.called
    /\ UsesFallback
    /\ showAllMethods
    /\ \E k \in 1..Len(extracted.value) :
          /\ extracted.value[k].name = "exportData"
          /\ extracted.value[k].exp = "named"

\* export function defaultHandler is tagged default by the fallback
C14_NameTakenForDefaultReached ==
    /\ extracted.called
    /\ UsesFallback
    /\ ~showAllMethods
    /\ \E k \in 1..Len(extracted.value) :
          /\ extracted.value[k].name = "defaultHandler"
          /\ extracted.value[k].exp = "default"

\* export default function main is tagged named by the fallback in
\* allDeclarations mode
C14_DefaultLostReached ==
    /\ extracted.called
    /\ UsesFallback
    /\ showAllMethods
    /\ \E k \in 1..Len(extracted.value) :
          /\ extracted.value[k].name = "main"
          /\ extracted.value[k].exp = "named"

(***************************************************************************)
(* Claims on which files are scanned for signatures (under Spec)           *)
(***************************************************************************)

\* the entries of the root that are files the run can stat and read, hold
\* declarations, and survive the filters
ScannableFiles ==
    {k \in RootSurvivors("file") :
        /\ rootDir.kids[k].stat /\ rootDir.kids[k].read
        /\ rootDir.kids[k].decls # <<>>}

\* the line of the root's file name is followed by signature lines
MethodsShown(out, name) ==
    \E m \in 1..(Len(out) - 1) :
        /\ out[m].what = "file" /\ out[m].name = name /\ out[m].prefix = <<>>
        /\ out[m + 1].what = "method"

\* the root's file name is listed with its line count
ListedWithCount(out, file) ==
    \E m \in 1..Len(out) :
        /\ out[m].what = "file" /\ out[m].name = file.name /\ out[m].prefix = <<>>
        /\ out[m].lineCount = file.newlines + 1

InIncludedSet(name) ==
    Includes(loadConfig(configFile).config.includeExtensions, ExtName(name))

\* C15 as stated: with signature display on, the signatures of a surviving
\* readable file are extracted exactly when its extension is in the
\* included-extension set of the Config; every such file is listed with its
\* line count either way.
C15_ScannedIffIncluded ==
    \A r \in 1..Len(runs) :
        (~runs[r].threw /\ showMethods) =>
            \A k \in ScannableFiles :
                /\ ListedWithCount(runs[r].out, rootDir.kids[k])
                /\ MethodsShown(runs[r].out, rootDir.kids[k].name)
                      <=> InIncludedSet(rootDir.kids[k].name)

\* C15 amended: with signature display on, the signatures of a surviving
\* readable file are extracted exactly when its extension is in the
\* included-extension set of the Config and is one of .js, .mjs, .cjs; an
\* extension the configuration file sets or the defaults hold beyond these
\* three (.ts, .json) gets no extraction.  Without signature display no
\* file is scanned.  Every such file is listed with its line count.
C15_ScannedIffIncludedScript ==
    \A r \in 1..Len(runs) :
        ~runs[r].threw =>
            \A k \in ScannableFiles :
                /\ ListedWithCount(runs[r].out, rootDir.kids[k])
                /\ MethodsShown(runs[r].out, rootDir.kids[k].name)
                      <=> /\ showMethods
                          /\ InIncludedSet(rootDir.kids[k].name)
                          /\ ExtName(rootDir.kids[k].name) \in {S_js, S_mjs, S_cjs}

\* n.ts, its extension set by the configuration file, is listed with its
\* line count and without signatures
C15_Witness ==
    /\ Len(runs) > 0
    /\ ~runs[1].threw
    /\ showMethods
    /\ \E k \in ScannableFiles :
          /\ rootDir.kids[k].name = S_n_ts
          /\ InIncludedSet(S_n_ts)
          /\ ListedWithCount(runs[1].out, rootDir.kids[k])
          /\ ~MethodsShown(runs[1].out, S_n_ts)

\* m.js is scanned under the default set
C15_ScriptScannedReached ==
    /\ Len(runs) > 0
    /\ ~runs[1].threw
    /\ showMethods
    /\ configFile.state = "absent"
    /\ MethodsShown(runs[1].out, S_m_js)

\* m.js is not scanned once the configuration file sets the set to .ts
C15_ScriptOutsideSetReached ==
    /\ Len(runs) > 0
    /\ ~runs[1].threw
    /\ showMethods
    /\ ~InIncludedSet(S_m_js)
    /\ \E k \in ScannableFiles : rootDir.kids[k].name = S_m_js
    /\ ~MethodsShown(runs[1].out, S_m_js)

\* d.json, in the default set, is listed without signatures
C15_JsonNotScannedReached ==
    /\ Len(runs) > 0
    /\ ~runs[1].threw
    /\ showMethods
    /\ configFile.state = "absent"
    /\ \E k \in ScannableFiles : rootDir.kids[k].name = S_d_json
    /\ ~MethodsShown(runs[1].out, S_d_json)

(***************************************************************************)
(* Claims on the number of signatures of a declaration (under SpecExtract) *)
(***************************************************************************)

\* C16: with includeAllMethods the structural strategy returns at most one
\* signature for each declaration: no two signatures of the returned
\* sequence are those of the same declaration.
C16_OnePerDeclaration ==
    (extracted.called /\ UsesStructural /\ showAllMethods) =>
        \A j, k \in 1..Len(extracted.value) :
            j # k => DeclarationOf(extracted.value[j].at)
                        # DeclarationOf(extracted.value[k].at)

\* without includeAllMethods the structural strategy does return at most
\* one signature for each declaration
C16_OnePerDeclarationExportedOnly ==
    (extracted.called /\ UsesStructural /\ ~showAllMethods) =>
        \A j, k \in 1..Len(extracted.value) :
            j # k => DeclarationOf(extracted.value[j].at)
                        # DeclarationOf(extracted.value[k].at)

\* export function add(a, b) {} alone gives add(a, b) and export add(a, b)
C16_ExportedFunctionTwiceReached ==
    /\ extracted.called
    /\ UsesStructural
    /\ showAllMethods
    /\ sourceFile.decls = <<Fn("named", FALSE, "add", P_ab, <<>>)>>
    /\ extracted.value = << Sig("none", FALSE, "add", <<"a", ",", "b">>, 1),
                            Sig("named", FALSE, "add", <<"a", ",", "b">>, 1) >>

\* an exported variable-bound function is returned twice
C16_ExportedVariableTwiceReached ==
    /\ extracted.called
    /\ UsesStructural
    /\ showAllMethods
    /\ sourceFile.decls = <<Var("named", TRUE, "fetch", "arrow", P_dflt, <<>>)>>
    /\ Len(extracted.value) = 2

\* a named default-exported function is returned twice
C16_DefaultNamedTwiceReached ==
    /\ extracted.called
    /\ UsesStructural
    /\ showAllMethods
    /\ sourceFile.decls = <<Fn("default", FALSE, "main", P_rest, <<>>)>>
    /\ Len(extracted.value) = 2

====
